---------------------------- MODULE Spec2Model ----------------------------
(***************************************************************************)
(* Model of the client-side TLS session driver of src/src/client.rs:       *)
(* ClientConfig, ClientHandshakeData, ConnState and ClientSession with its *)
(* message dispatch (process_msg / get_handler), the inbound pump          *)
(* (process_new_packets), the outbound drain (write_tls) and the cipher    *)
(* suite queries (get_cipher_suites / find_cipher_suite).                  *)
(*                                                                         *)
(* The handler table (client_hs), the message layer (msgs) and the random  *)
(* source (rand) are other modules of the crate; they are modelled from    *)
(* the specification document and kept apart under "collaborators".        *)
(***************************************************************************)
EXTENDS Integers, Sequences, FiniteSets, TLC

VARIABLES cs, last, failed, wf

vars == <<cs, last, failed, wf>>

(***************************************************************************)
(* Bounds of the model.                                                    *)
(***************************************************************************)
\* longest configured cipher-suite list explored by SpecConfig
MaxSuites == 3
\* most messages the deframer holds at once
MaxFrames == 1
\* most messages the deframer holds at once under SpecPump
MaxPump == 3

(***************************************************************************)
(* Option<T>: None is the empty sequence, Some(x) a one-element sequence.  *)
(***************************************************************************)
None == <<>>

Some(x) == <<x>>

(***************************************************************************)
(* Cipher suites.                                                          *)
(***************************************************************************)
\* CipherSuite::TLS_EMPTY_RENEGOTIATION_INFO_SCSV, the signalling value
\* pushed by get_cipher_suites
TLS_EMPTY_RENEGOTIATION_INFO_SCSV == "TLS_EMPTY_RENEGOTIATION_INFO_SCSV"

\* wire identifiers of real suites; "S3" is never configured
SuiteIds == {"S1", "S2", "S3"}

\* every identifier a peer can put on the wire
CipherSuite == SuiteIds \cup {TLS_EMPTY_RENEGOTIATION_INFO_SCSV}

\* the static SupportedCipherSuite descriptors a configuration can point to;
\* two of them share the identifier S1 so that list order is observable
SupportedCipherSuite ==
  { [suite |-> "S1", hash |-> "SHA256"],
    [suite |-> "S1", hash |-> "SHA384"],
    [suite |-> "S2", hash |-> "SHA256"] }

DEFAULT_CIPHERSUITES ==
  << [suite |-> "S1", hash |-> "SHA256"], [suite |-> "S2", hash |-> "SHA256"] >>

\* ClientConfig::default()
ClientConfigDefault == [ciphersuites |-> DEFAULT_CIPHERSUITES]

SeqsUpTo(S, n) == UNION { [1..k -> S] : k \in 0..n }

\* every ClientConfig with at most MaxSuites suites
ClientConfig == { [ciphersuites |-> l] : l \in SeqsUpTo(SupportedCipherSuite, MaxSuites) }

\* the configurations under which whole handshakes are explored
SessionConfigs ==
  { ClientConfigDefault, [ciphersuites |-> << [suite |-> "S2", hash |-> "SHA256"] >>] }

HostNames == {"example.test", ""}

(***************************************************************************)
(* Collaborators: message layer (msgs::message, msgs::deframer).           *)
(***************************************************************************)
ServerMsgTypes ==
  <<"ServerHello", "Certificate", "ServerKeyExchange", "ServerHelloDone",
    "ChangeCipherSpec", "Finished">>

\* A Message: its type tag, whether decode_payload() can parse its body, and
\* the fields this core reads or writes (selected suite of a ServerHello;
\* random and advertised suites of a ClientHello; verify data of a Finished).
Msg(t, d, s) ==
  [typ |-> t, decodable |-> d, suite |-> s, random |-> <<>>, suites |-> <<>>,
   verify |-> <<>>]

\* the messages a peer can send
ServerMessages ==
  { Msg("ServerHello", TRUE, s) : s \in {"S1", "S2", TLS_EMPTY_RENEGOTIATION_INFO_SCSV} }
  \cup { Msg(ServerMsgTypes[i], TRUE, "none") : i \in 2..6 }
  \cup { Msg(t, FALSE, "none") : t \in {"ServerHello", "ServerKeyExchange"} }

\* Message::decode_payload(): fallible; on failure the payload stays opaque
decode_payload(msg) == msg.decodable

(***************************************************************************)
(* Collaborators: randomness (rand::fill_random_vec).                      *)
(***************************************************************************)
RandomBytes == {7, 200}

\* the vectors fill_random_vec(v, n) can leave in v
fill_random_vec(n) == { [i \in 1..n |-> b] : b \in RandomBytes }

(***************************************************************************)
(* ClientHandshakeData                                                     *)
(***************************************************************************)
\* ClientHandshakeData::new
ClientHandshakeDataNew(host_name) ==
  [ client_hello      |-> <<>>,
    server_cert_chain |-> <<>>,
    ciphersuite       |-> None,
    dns_name          |-> host_name,
    client_random     |-> <<>>,
    server_random     |-> <<>>,
    server_kx_params  |-> <<>>,
    server_kx_sig     |-> None,
    handshake_hash    |-> None,
    secrets           |-> "for_client" ]

\* number of bytes generate_client_random asks for
ClientRandomLen == 32

\* ClientHandshakeData::generate_client_random: the values client_random can take
generate_client_random == fill_random_vec(ClientRandomLen)

(***************************************************************************)
(* ConnState                                                               *)
(***************************************************************************)
ConnState ==
  <<"ExpectServerHello", "ExpectCertificate", "ExpectServerKX",
    "ExpectServerHelloDone", "ExpectCCS", "ExpectFinished", "Traffic">>

(***************************************************************************)
(* ClientSession: cipher-suite queries                                     *)
(***************************************************************************)
RECURSIVE PushSuites(_, _, _)
\* the for loop of get_cipher_suites: push the identifier of entry i, i+1, ...
PushSuites(list, i, ret) ==
  IF i > Len(list) THEN ret
  ELSE PushSuites(list, i + 1, Append(ret, list[i].suite))

\* get_cipher_suites without the final push
get_cipher_suites_NoSentinel(sess) == PushSuites(sess.config.ciphersuites, 1, <<>>)

\* ClientSession::get_cipher_suites
get_cipher_suites(sess) ==
  Append(PushSuites(sess.config.ciphersuites, 1, <<>>), TLS_EMPTY_RENEGOTIATION_INFO_SCSV)

RECURSIVE FindFrom(_, _, _)
\* the for loop of find_cipher_suite, from entry i on
FindFrom(list, i, got) ==
  IF i > Len(list) THEN None
  ELSE IF list[i].suite = got THEN Some(list[i])
  ELSE FindFrom(list, i + 1, got)

\* find_cipher_suite falling back to the most preferred suite
find_cipher_suite_OrDefault(sess, suite) ==
  LET f == FindFrom(sess.config.ciphersuites, 1, suite)
  IN IF f = None /\ sess.config.ciphersuites # <<>>
       THEN Some(sess.config.ciphersuites[1]) ELSE f

\* find_cipher_suite looking the identifier up in the advertised list
find_cipher_suite_Advertised(sess, suite) ==
  LET f == FindFrom(sess.config.ciphersuites, 1, suite)
  IN IF f = None /\ suite = TLS_EMPTY_RENEGOTIATION_INFO_SCSV
       THEN Some([suite |-> suite, hash |-> "none"]) ELSE f

\* ClientSession::find_cipher_suite
find_cipher_suite(sess, suite) == FindFrom(sess.config.ciphersuites, 1, suite)

\* ClientSession::wants_read
wants_read(sess) == TRUE

\* wants_write answering like wants_read
wants_write_Always(sess) == TRUE

\* ClientSession::wants_write
wants_write(sess) == sess.tls_queue # <<>>


(***************************************************************************)
(* Collaborators: wire encoding (Message::encode) and the transcript hash  *)
(* (hash_hs::HandshakeHash).                                               *)
(***************************************************************************)
TypeCode(t) ==
  CASE t = "ClientHello"       -> 1
    [] t = "ServerHello"       -> 2
    [] t = "Certificate"       -> 11
    [] t = "ServerKeyExchange" -> 12
    [] t = "ServerHelloDone"   -> 14
    [] t = "ClientKeyExchange" -> 16
    [] t = "Finished"          -> 20
    [] t = "ChangeCipherSpec"  -> 101

SuiteCode(s) ==
  CASE s = "S1" -> 1
    [] s = "S2" -> 2
    [] s = "S3" -> 3
    [] s = TLS_EMPTY_RENEGOTIATION_INFO_SCSV -> 255
    [] OTHER -> 0

\* Message::encode: type, selected suite, random, advertised suites, verify data
encode(msg) ==
  <<TypeCode(msg.typ), SuiteCode(msg.suite), Len(msg.random), Len(msg.suites),
    Len(msg.verify)>>
    \o msg.random \o [i \in 1..Len(msg.suites) |-> SuiteCode(msg.suites[i])]
    \o msg.verify

\* HandshakeHash::new for the negotiated suite's hash algorithm
HandshakeHashNew(alg) == [alg |-> alg, data |-> <<>>]

\* HandshakeHash::update: the accumulator absorbs the bytes in order
HandshakeHashUpdate(ctx, bytes) == [ctx EXCEPT !.data = @ \o bytes]

AlgCode(alg) == IF alg = "SHA256" THEN 4 ELSE 5

RECURSIVE DigestFold(_)
\* the digest primitive, an external collaborator: a fixed-width value
\* computed from the absorbed bytes in order (16 bits here), the digests of
\* the two halves of the input folded into one
DigestFold(bytes) ==
  IF bytes = <<>> THEN 0
  ELSE IF Len(bytes) = 1 THEN bytes[1]
  ELSE LET mid == Len(bytes) \div 2
       IN (DigestFold(SubSeq(bytes, 1, mid)) * 31
             + DigestFold(SubSeq(bytes, mid + 1, Len(bytes)))) % 65536

\* HandshakeHash::get_current_hash: the digest, under the accumulator's
\* algorithm, of everything absorbed so far, as an opaque payload
get_current_hash(ctx) == <<DigestFold(<<AlgCode(ctx.alg)>> \o ctx.data)>>

(***************************************************************************)
(* ClientHandshakeData: transcript                                         *)
(***************************************************************************)
\* hash_message creating a default accumulator when there is none
hash_message_Default(hd, m) ==
  LET ctx == IF hd.handshake_hash = None THEN HandshakeHashNew("SHA256")
             ELSE hd.handshake_hash[1]
  IN [panic |-> FALSE,
      hd |-> [hd EXCEPT !.handshake_hash = Some(HandshakeHashUpdate(ctx, encode(m)))]]

\* ClientHandshakeData::hash_message; unwrap() of an absent accumulator panics
hash_message(hd, m) ==
  IF hd.handshake_hash = None
    THEN [panic |-> TRUE, hd |-> hd]
    ELSE [panic |-> FALSE,
          hd |-> [hd EXCEPT !.handshake_hash =
                    Some(HandshakeHashUpdate(hd.handshake_hash[1], encode(m)))]]

\* ClientHandshakeData::get_verify_data; unwrap() of an absent accumulator panics
get_verify_data(hd) ==
  IF hd.handshake_hash = None
    THEN [panic |-> TRUE, body |-> <<>>]
    ELSE [panic |-> FALSE, body |-> get_current_hash(hd.handshake_hash[1])]

(***************************************************************************)
(* Collaborators: the handler table (client_hs).                           *)
(***************************************************************************)
ClientMsg(t) == Msg(t, TRUE, "none")

\* client_hs::emit_client_hello: generate the client random, build the hello
\* from get_cipher_suites, remember its bytes and queue it
emit_client_hello(sess, rnd) ==
  LET hello == [Msg("ClientHello", TRUE, "none") EXCEPT
                  !.random = rnd, !.suites = get_cipher_suites(sess)]
  IN [sess EXCEPT !.handshake_data.client_random = rnd,
                  !.handshake_data.client_hello = encode(hello),
                  !.tls_queue = Append(@, hello)]

\* Handler.expect: the message types a handler accepts
HandlerExpect(h) ==
  CASE h = "ExpectServerHello"     -> {"ServerHello"}
    [] h = "ExpectCertificate"     -> {"Certificate"}
    [] h = "ExpectServerKX"        -> {"ServerKeyExchange"}
    [] h = "ExpectServerHelloDone" -> {"ServerHelloDone"}
    [] h = "InvalidState"          -> {ServerMsgTypes[i] : i \in 1..6}

\* Expectation::check_message, on the message's type tag
check_message(expects, msg) ==
  IF msg.typ \in expects THEN "Ok" ELSE "ProtocolViolation"

Err(sess, e) == [sess |-> sess, res |-> e, next |-> sess.state]

\* hash the received message and move on to state next
HashAndGo(sess, m, next) ==
  LET h == hash_message(sess.handshake_data, m)
  IN IF h.panic THEN Err(sess, "Panic")
     ELSE [sess |-> [sess EXCEPT !.handshake_data = h.hd], res |-> "Ok", next |-> next]

\* ExpectServerHello.handle: negotiate the suite, start the transcript hash
\* with the client hello and the server hello
HandleServerHello(sess, m) ==
  LET scs == find_cipher_suite(sess, m.suite)
  IN IF scs = None THEN Err(sess, "NegotiationFailure")
     ELSE LET hd0 == sess.handshake_data
              ctx == HandshakeHashUpdate(HandshakeHashNew(scs[1].hash), hd0.client_hello)
              hd1 == [hd0 EXCEPT !.ciphersuite = scs, !.handshake_hash = Some(ctx)]
          IN HashAndGo([sess EXCEPT !.handshake_data = hd1], m, "ExpectCertificate")

\* ExpectServerHelloDone.handle: answer with the client's second flight; the
\* key exchange is hashed as it is sent, and the Finished carries the verify
\* data of the transcript up to there
HandleServerHelloDone(sess, m) ==
  LET r == HashAndGo(sess, m, "ExpectCCS")
  IN IF r.res # "Ok" THEN r
     ELSE LET kx == hash_message(r.sess.handshake_data, ClientMsg("ClientKeyExchange"))
              vd == get_verify_data(kx.hd)
          IN IF kx.panic \/ vd.panic THEN Err(sess, "Panic")
             ELSE [r EXCEPT !.sess.handshake_data = kx.hd,
                            !.sess.tls_queue =
                              @ \o <<ClientMsg("ClientKeyExchange"),
                                     ClientMsg("ChangeCipherSpec"),
                                     [ClientMsg("Finished") EXCEPT !.verify = vd.body]>>]

\* Handler.handle: the state-specific work; returns the session as the handler
\* leaves it, the result and the next state
HandlerHandle(h, sess, m) ==
  IF h = "InvalidState" THEN Err(sess, "UnexpectedState")
  ELSE IF ~m.decodable THEN Err(sess, "General")
  ELSE CASE h = "ExpectServerHello"     -> HandleServerHello(sess, m)
         [] h = "ExpectCertificate"     -> HashAndGo(sess, m, "ExpectServerKX")
         [] h = "ExpectServerKX"        -> HashAndGo(sess, m, "ExpectServerHelloDone")
         [] h = "ExpectServerHelloDone" -> HandleServerHelloDone(sess, m)

(***************************************************************************)
(* ClientSession                                                           *)
(***************************************************************************)
\* new without the call of emit_client_hello
new_NoHello(client_config, hostname, rnd) ==
  [ config          |-> client_config,
    handshake_data  |-> ClientHandshakeDataNew(hostname),
    secrets_current |-> "for_client",
    frames          |-> <<>>,
    tls_queue       |-> <<>>,
    state           |-> "ExpectServerHello" ]

\* ClientSession::new: the session it returns when the random source yields rnd
new(client_config, hostname, rnd) ==
  emit_client_hello(
    [ config          |-> client_config,
      handshake_data  |-> ClientHandshakeDataNew(hostname),
      secrets_current |-> "for_client",
      frames          |-> <<>>,
      tls_queue       |-> <<>>,
      state           |-> "ExpectServerHello" ], rnd)

\* get_handler whose ExpectServerHelloDone arm repeats the ExpectServerHello one
get_handler_RepeatedArm(sess) ==
  CASE sess.state = "ExpectServerHello"     -> "ExpectServerHello"
    [] sess.state = "ExpectCertificate"     -> "ExpectCertificate"
    [] sess.state = "ExpectServerKX"        -> "ExpectServerKX"
    [] sess.state = "ExpectServerHelloDone" -> "ExpectServerHello"
    [] OTHER                                -> "InvalidState"

\* get_handler whose catch-all arm dispatches to the ExpectServerHello handler
get_handler_NoSentinel(sess) ==
  CASE sess.state = "ExpectServerHello"     -> "ExpectServerHello"
    [] sess.state = "ExpectCertificate"     -> "ExpectCertificate"
    [] sess.state = "ExpectServerKX"        -> "ExpectServerKX"
    [] sess.state = "ExpectServerHelloDone" -> "ExpectServerHelloDone"
    [] OTHER                                -> "ExpectServerHello"

\* ClientSession::get_handler
get_handler(sess) ==
  CASE sess.state = "ExpectServerHello"     -> "ExpectServerHello"
    [] sess.state = "ExpectCertificate"     -> "ExpectCertificate"
    [] sess.state = "ExpectServerKX"        -> "ExpectServerKX"
    [] sess.state = "ExpectServerHelloDone" -> "ExpectServerHelloDone"
    [] OTHER                                -> "InvalidState"

\* process_msg without the try!(expects.check_message(msg)) line
process_msg_NoCheck(sess, msg) ==
  LET r == HandlerHandle(get_handler(sess), sess, msg)
  IN IF r.res # "Ok" THEN [sess |-> r.sess, res |-> r.res, stage |-> "handle"]
     ELSE [sess |-> [r.sess EXCEPT !.state = r.next], res |-> "Ok", stage |-> "commit"]

\* process_msg that assigns the state before it looks at what handle returned
process_msg_CommitFirst(sess, msg) ==
  LET handler == get_handler(sess)
      chk     == check_message(HandlerExpect(handler), msg)
  IN IF chk # "Ok" THEN [sess |-> sess, res |-> chk, stage |-> "expect"]
     ELSE LET r == HandlerHandle(handler, sess, msg)
              n == IF r.res = "Ok" THEN r.next
                   ELSE CASE handler = "ExpectServerHello"     -> "ExpectCertificate"
                          [] handler = "ExpectCertificate"     -> "ExpectServerKX"
                          [] handler = "ExpectServerKX"        -> "ExpectServerHelloDone"
                          [] handler = "ExpectServerHelloDone" -> "ExpectCCS"
                          [] OTHER                             -> sess.state
          IN [sess  |-> [r.sess EXCEPT !.state = n],
              res   |-> r.res,
              stage |-> IF r.res = "Ok" THEN "commit" ELSE "handle"]

\* ClientSession::process_msg.  The value of decode_payload() is dropped; the
\* expectation is checked next; handle runs only on a match and the state is
\* assigned only when handle returned Ok.  stage tells how far the call got.
process_msg(sess, msg) ==
  LET decoded == decode_payload(msg)
      handler == get_handler(sess)
      expects == HandlerExpect(handler)
      chk     == check_message(expects, msg)
  IN IF chk # "Ok" THEN [sess |-> sess, res |-> chk, stage |-> "expect"]
     ELSE LET r == HandlerHandle(handler, sess, msg)
          IN IF r.res # "Ok" THEN [sess |-> r.sess, res |-> r.res, stage |-> "handle"]
             ELSE [sess |-> [r.sess EXCEPT !.state = r.next], res |-> "Ok",
                   stage |-> "commit"]

RECURSIVE process_new_packets_Lifo(_)
\* process_new_packets taking the newest frame (pop_back) instead of the oldest
process_new_packets_Lifo(sess) ==
  IF sess.frames = <<>> THEN [sess |-> sess, res |-> "Ok", n |-> 0]
  ELSE LET k   == Len(sess.frames)
           msg == sess.frames[k]
           r   == process_msg([sess EXCEPT !.frames = SubSeq(@, 1, k - 1)], msg)
       IN IF r.res # "Ok" THEN [sess |-> r.sess, res |-> r.res, n |-> 1]
          ELSE LET rest == process_new_packets_Lifo(r.sess)
               IN [rest EXCEPT !.n = @ + 1]

RECURSIVE process_new_packets_KeepFailed(_)
\* process_new_packets that puts the message it failed on back at the front
process_new_packets_KeepFailed(sess) ==
  IF sess.frames = <<>> THEN [sess |-> sess, res |-> "Ok", n |-> 0]
  ELSE LET msg == Head(sess.frames)
           r   == process_msg([sess EXCEPT !.frames = Tail(@)], msg)
       IN IF r.res # "Ok"
            THEN [sess |-> [r.sess EXCEPT !.frames = <<msg>> \o @], res |-> r.res, n |-> 1]
          ELSE LET rest == process_new_packets_KeepFailed(r.sess)
               IN [rest EXCEPT !.n = @ + 1]

RECURSIVE process_new_packets_BreakOnError(_)
\* process_new_packets that breaks out of the loop on an error and returns Ok
process_new_packets_BreakOnError(sess) ==
  IF sess.frames = <<>> THEN [sess |-> sess, res |-> "Ok", n |-> 0]
  ELSE LET msg == Head(sess.frames)
           r   == process_msg([sess EXCEPT !.frames = Tail(@)], msg)
       IN IF r.res # "Ok" THEN [sess |-> r.sess, res |-> "Ok", n |-> 1]
          ELSE LET rest == process_new_packets_BreakOnError(r.sess)
               IN [rest EXCEPT !.n = @ + 1]

RECURSIVE process_new_packets(_)
\* ClientSession::process_new_packets: pop the front frame, process it, stop
\* at the first error; n counts the frames popped
process_new_packets(sess) ==
  IF sess.frames = <<>> THEN [sess |-> sess, res |-> "Ok", n |-> 0]
  ELSE LET msg == Head(sess.frames)
           r   == process_msg([sess EXCEPT !.frames = Tail(@)], msg)
       IN IF r.res # "Ok" THEN [sess |-> r.sess, res |-> r.res, n |-> 1]
          ELSE LET rest == process_new_packets(r.sess)
               IN [rest EXCEPT !.n = @ + 1]

\* read_tls that also processes what it has read
read_tls_AndProcess(sess, rd) ==
  IF rd = None THEN [sess |-> sess, res |-> "IoError"]
  ELSE LET r == process_new_packets([sess EXCEPT !.frames = Append(@, rd[1])])
       IN [sess |-> r.sess, res |-> r.res]

\* MessageDeframer::read behind ClientSession::read_tls: the source yields
\* either an I/O error or the bytes of one more complete message
read_tls(sess, rd) ==
  IF rd = None THEN [sess |-> sess, res |-> "IoError"]
  ELSE [sess |-> [sess EXCEPT !.frames = Append(@, rd[1])], res |-> "Ok"]

\* write_tls taking the newest message (pop_back) instead of the oldest
write_tls_PopBack(sess, wr_ok) ==
  IF sess.tls_queue = <<>> THEN [sess |-> sess, res |-> "Ok", data |-> <<>>]
  ELSE LET k    == Len(sess.tls_queue)
           data == encode(sess.tls_queue[k])
       IN [sess |-> [sess EXCEPT !.tls_queue = SubSeq(@, 1, k - 1)],
           res  |-> IF wr_ok THEN "Ok" ELSE "IoError",
           data |-> IF wr_ok THEN data ELSE <<>>]

\* ClientSession::write_tls: the message is popped first, then encoded and
\* handed to the sink, which accepts it (wr_ok) or fails
write_tls(sess, wr_ok) ==
  IF sess.tls_queue = <<>> THEN [sess |-> sess, res |-> "Ok", data |-> <<>>]
  ELSE LET msg  == Head(sess.tls_queue)
           data == encode(msg)
       IN [sess |-> [sess EXCEPT !.tls_queue = Tail(@)],
           res  |-> IF wr_ok THEN "Ok" ELSE "IoError",
           data |-> IF wr_ok THEN data ELSE <<>>]

(***************************************************************************)
(* Observation of the calls made on the session.                           *)
(*   last   - the latest call: operation, message or suite argument,       *)
(*            result, how far process_msg got, returned value              *)
(*   failed - some process_msg / process_new_packets call has returned Err *)
(*   wf     - k when the messages processed so far are exactly the first k *)
(*            of the well-formed server flight, -1 once they are not       *)
(***************************************************************************)
Call(op, msg, suite, res, stage, ret) ==
  [op |-> op, msg |-> msg, suite |-> suite, res |-> res, stage |-> stage, ret |-> ret]

\* message k of the well-formed server flight, for the session's configuration
WellFormedAt(sess, k, m) ==
  /\ m.decodable
  /\ m.typ = ServerMsgTypes[k]
  /\ k = 1 => find_cipher_suite(sess, m.suite) # None

WfStep(w, sess, m) ==
  IF w >= 0 /\ w < Len(ServerMsgTypes) /\ WellFormedAt(sess, w + 1, m) THEN w + 1 ELSE -1

RECURSIVE WfFold(_, _, _)
WfFold(w, sess, msgs) ==
  IF msgs = <<>> THEN w ELSE WfFold(WfStep(w, sess, Head(msgs)), sess, Tail(msgs))

Fresh(sess) ==
  /\ cs = sess
  /\ last = Call("new", None, "none", "Ok", "none", <<>>)
  /\ failed = FALSE
  /\ wf = 0

\* ClientSession::new under the handshake configurations
Init ==
  \E cfg \in SessionConfigs, rnd \in generate_client_random :
    Fresh(new(cfg, "example.test", rnd))

\* ClientSession::new under every configuration and host name
InitConfig ==
  \E cfg \in ClientConfig, host \in HostNames, rnd \in generate_client_random :
    Fresh(new(cfg, host, rnd))

(***************************************************************************)
(* Operations on the session.                                              *)
(***************************************************************************)
ProcessMsg ==
  \E msg \in ServerMessages :
    LET r == process_msg(cs, msg)
    IN /\ cs' = r.sess
       /\ last' = Call("process_msg", Some(msg), "none", r.res, r.stage, <<>>)
       /\ failed' = (failed \/ r.res # "Ok")
       /\ wf' = WfStep(wf, cs, msg)

ProcessNewPackets ==
  LET r == process_new_packets(cs)
  IN /\ cs' = r.sess
     /\ last' = Call("process_new_packets", None, "none", r.res, "none", <<r.n>>)
     /\ failed' = (failed \/ r.res # "Ok")
     /\ wf' = WfFold(wf, cs, SubSeq(cs.frames, 1, r.n))

ReadTls ==
  \E rd \in {None} \cup {Some(m) : m \in ServerMessages} :
    LET r == read_tls(cs, rd)
    IN /\ rd # None => Len(cs.frames) < MaxFrames
       /\ cs' = r.sess
       /\ last' = Call("read_tls", rd, "none", r.res, "none", <<>>)
       /\ UNCHANGED <<failed, wf>>

WriteTls ==
  \E wr_ok \in BOOLEAN :
    LET r == write_tls(cs, wr_ok)
    IN /\ cs' = r.sess
       /\ last' = Call("write_tls", None, "none", r.res, "none", r.data)
       /\ UNCHANGED <<failed, wf>>

WantsRead ==
  /\ last' = Call("wants_read", None, "none", "Ok", "none", <<wants_read(cs)>>)
  /\ UNCHANGED <<cs, failed, wf>>

WantsWrite ==
  /\ last' = Call("wants_write", None, "none", "Ok", "none", <<wants_write(cs)>>)
  /\ UNCHANGED <<cs, failed, wf>>

GetCipherSuites ==
  /\ last' = Call("get_cipher_suites", None, "none", "Ok", "none", get_cipher_suites(cs))
  /\ UNCHANGED <<cs, failed, wf>>

FindCipherSuite ==
  \E suite \in CipherSuite :
    /\ last' = Call("find_cipher_suite", None, suite, "Ok", "none",
                    find_cipher_suite(cs, suite))
    /\ UNCHANGED <<cs, failed, wf>>

Next ==
  \/ ProcessMsg
  \/ ProcessNewPackets
  \/ ReadTls
  \/ WriteTls
  \/ WantsRead
  \/ WantsWrite
  \/ GetCipherSuites
  \/ FindCipherSuite

\* a session under a handshake
Spec == Init /\ [][Next]_vars

NextConfig ==
  \/ WantsRead
  \/ WantsWrite
  \/ GetCipherSuites
  \/ FindCipherSuite

\* a freshly started session under every configuration, and the queries on it
SpecConfig == InitConfig /\ [][NextConfig]_vars

\* read_tls with room for MaxPump messages in the deframer
ReadTlsPump ==
  \E rd \in {None} \cup {Some(m) : m \in ServerMessages} :
    LET r == read_tls(cs, rd)
    IN /\ rd # None => Len(cs.frames) < MaxPump
       /\ cs' = r.sess
       /\ last' = Call("read_tls", rd, "none", r.res, "none", <<>>)
       /\ UNCHANGED <<failed, wf>>

NextPump ==
  \/ ReadTlsPump
  \/ ProcessNewPackets

\* the inbound side alone: messages arrive and are pumped
SpecPump == Init /\ [][NextPump]_vars

(***************************************************************************)
(* Properties.                                                             *)
(***************************************************************************)
\* the message of the latest call does not match what the handler of the
\* state sess expects
Unexpected(sess, m) == m.typ \notin HandlerExpect(get_handler(sess))

\* C1: process_msg on a message that does not match the expectation of the
\* current state's handler fails with a protocol violation and leaves the
\* state, the transcript and the outbound queue as they were.
C1_RejectedMessageChangesNothing ==
  [][ (last'.op = "process_msg" /\ Unexpected(cs, last'.msg[1]))
        => /\ last'.res = "ProtocolViolation"
           /\ cs'.state = cs.state
           /\ cs'.handshake_data = cs.handshake_data
           /\ cs'.tls_queue = cs.tls_queue ]_vars

\* C1 witness: a ServerKeyExchange was rejected in ExpectServerHello
C1_Witness ==
  /\ last.op = "process_msg"
  /\ last.msg = Some(Msg("ServerKeyExchange", TRUE, "none"))
  /\ last.res = "ProtocolViolation"
  /\ cs.state = "ExpectServerHello"
  /\ cs.handshake_data.handshake_hash = None
  /\ Len(cs.tls_queue) = 1

\* C2: while the messages processed are the well-formed server flight
\* ServerHello, Certificate, ServerKeyExchange, ServerHelloDone,
\* ChangeCipherSpec, Finished, each one is accepted and moves the session one
\* state along ConnState, so that after all six the state is Traffic.
C2_WellFormedFlightReachesTraffic ==
  wf >= 0 => cs.state = ConnState[wf + 1]

\* C3: a write_tls call whose sink write fails leaves the outbound queue as it
\* was, the message still at its head.
C3_FailedWriteKeepsMessage ==
  [][ (last'.op = "write_tls" /\ last'.res = "IoError")
        => cs'.tls_queue = cs.tls_queue ]_vars

\* C4: once a process_msg or process_new_packets call has failed, no later
\* call changes the connection state.
C4_NoTransitionAfterFailure ==
  [][ failed => cs'.state = cs.state ]_vars

\* C5: process_msg on a message whose payload cannot be decoded fails with a
\* decode failure, before the expectation is evaluated or the handler invoked.
C5_UndecodableFailsAtDecode ==
  (last.op = "process_msg" /\ ~last.msg[1].decodable)
    => (last.res = "DecodeFailure" /\ last.stage = "decode")

\* C6: wants_write() answers true exactly when the outbound queue is not
\* empty, and so answers false right after a successful write_tls that took
\* the last queued message.
C6_WantsWriteIffQueued ==
  /\ wants_write(cs) <=> Len(cs.tls_queue) > 0
  /\ last.op = "wants_write" => last.ret = << Len(cs.tls_queue) > 0 >>
  /\ (last.op = "write_tls" /\ last.res = "Ok" /\ Len(cs.tls_queue) = 0)
       => ~wants_write(cs)

\* C6 witness: a successful write_tls has just written the last queued message
C6_Witness ==
  /\ last.op = "write_tls"
  /\ last.res = "Ok"
  /\ last.ret # <<>>
  /\ Len(cs.tls_queue) = 0
  /\ ~wants_write(cs)

\* the list a session of configuration cfg has to advertise
Advertised(cfg) ==
  [i \in 1..(Len(cfg.ciphersuites) + 1) |->
     IF i <= Len(cfg.ciphersuites) THEN cfg.ciphersuites[i].suite
     ELSE TLS_EMPTY_RENEGOTIATION_INFO_SCSV]

\* C7: right after ClientSession::new the state is ExpectServerHello, the
\* outbound queue holds exactly the client hello with a 32-byte random and the
\* advertised suite list, the inbound queue is empty and wants_write() is true.
C7_FreshSession ==
  last.op = "new"
    => /\ cs.state = "ExpectServerHello"
       /\ Len(cs.tls_queue) = 1
       /\ cs.tls_queue[1].typ = "ClientHello"
       /\ Len(cs.tls_queue[1].random) = 32
       /\ cs.tls_queue[1].random = cs.handshake_data.client_random
       /\ cs.tls_queue[1].suites = Advertised(cs.config)
       /\ cs.frames = <<>>
       /\ wants_write(cs)

\* C7 witness: a fresh session for two suites and the host example.test
C7_Witness ==
  /\ last.op = "new"
  /\ Len(cs.config.ciphersuites) = 2
  /\ cs.handshake_data.dns_name = "example.test"
  /\ Len(cs.tls_queue) = 1
  /\ Len(cs.tls_queue[1].suites) = 3

\* positions of the configured entries with identifier id
Hits(cfg, id) == { i \in 1..Len(cfg.ciphersuites) : cfg.ciphersuites[i].suite = id }

\* C8: find_cipher_suite(id) returns none when no configured suite has the
\* identifier id, and otherwise the first configured entry that has it.
C8_FindReturnsFirstConfigured ==
  last.op = "find_cipher_suite"
    => LET hits == Hits(cs.config, last.suite)
       IN IF hits = {} THEN last.ret = None
          ELSE \E i \in hits :
                 /\ \A j \in hits : i <= j
                 /\ last.ret = Some(cs.config.ciphersuites[i])

\* C8 witness: two configured entries share the identifier asked for and the
\* earlier one was returned
C8_Witness ==
  /\ last.op = "find_cipher_suite"
  /\ Cardinality(Hits(cs.config, last.suite)) >= 2
  /\ Hits(cs.config, last.suite) = {2, 3}
  /\ cs.config.ciphersuites[2] # cs.config.ciphersuites[3]
  /\ last.ret = Some(cs.config.ciphersuites[2])

\* C9: get_cipher_suites returns the configured identifiers in configured
\* order followed by the no-renegotiation value, n + 1 entries for n suites,
\* and changes nothing of the session.
C9_AdvertisedListIsConfigPlusSentinel ==
  [][ last'.op = "get_cipher_suites"
        => LET n == Len(cs.config.ciphersuites)
           IN /\ cs' = cs
              /\ Len(last'.ret) = n + 1
              /\ \A i \in 1..n : last'.ret[i] = cs.config.ciphersuites[i].suite
              /\ last'.ret[n + 1] = TLS_EMPTY_RENEGOTIATION_INFO_SCSV ]_vars

\* C9 witness: the list returned for a configuration of three suites
C9_Witness ==
  /\ last.op = "get_cipher_suites"
  /\ Len(cs.config.ciphersuites) = 3
  /\ Len(last.ret) = 4

\* C10: find_cipher_suite of the no-renegotiation value returns none although
\* get_cipher_suites advertises it: the identifiers find_cipher_suite accepts
\* are the advertised ones without that value.
C10_SentinelIsNeverNegotiated ==
  LET adv == { get_cipher_suites(cs)[i] : i \in 1..Len(get_cipher_suites(cs)) }
      acc == { id \in CipherSuite : find_cipher_suite(cs, id) # None }
  IN /\ TLS_EMPTY_RENEGOTIATION_INFO_SCSV \in adv
     /\ acc = adv \ {TLS_EMPTY_RENEGOTIATION_INFO_SCSV}
     /\ (last.op = "find_cipher_suite" /\ last.suite = TLS_EMPTY_RENEGOTIATION_INFO_SCSV)
          => last.ret = None

\* C10 witness: the no-renegotiation value was looked up and not found
C10_Witness ==
  /\ last.op = "find_cipher_suite"
  /\ last.suite = TLS_EMPTY_RENEGOTIATION_INFO_SCSV
  /\ last.ret = None
  /\ Len(cs.config.ciphersuites) >= 1

RECURSIVE StepAt(_, _)
\* process_msg applied to the k-th message of pre.frames, in the session left
\* by the k - 1 messages before it
StepAt(pre, k) ==
  LET before == IF k = 1 THEN pre ELSE StepAt(pre, k - 1).sess
  IN process_msg([before EXCEPT !.frames = SubSeq(pre.frames, k + 1, Len(pre.frames))],
                 pre.frames[k])

\* C11: process_new_packets feeds the queued messages to process_msg one at a
\* time, oldest first; it stops at the first message that fails, returning that
\* error with no later message processed, or when the queue is empty,
\* returning Ok.
C11_PumpIsFifoUntilFirstFailure ==
  [][ last'.op = "process_new_packets"
        => LET n   == last'.ret[1]
               len == Len(cs.frames)
           IN /\ n \in 0..len
              /\ \A k \in 1..(n - 1) : StepAt(cs, k).res = "Ok"
              /\ last'.res = "Ok"
                   => (n = len /\ (n > 0 => StepAt(cs, n).res = "Ok"))
              /\ last'.res # "Ok"
                   => (n >= 1 /\ StepAt(cs, n).res = last'.res)
              /\ cs' = IF n = 0 THEN cs ELSE StepAt(cs, n).sess ]_vars

\* C11 witness: of three queued messages the first was accepted, the second
\* failed, and the call returned its error
C11_Witness ==
  /\ last.op = "process_new_packets"
  /\ last.res = "ProtocolViolation"
  /\ last.ret = <<2>>
  /\ cs.state = "ExpectCertificate"
  /\ Len(cs.frames) = 1

\* every message the session has queued for sending so far, in queueing order:
\* the hello, then the second flight once ServerHelloDone has been handled
Enqueued(sess) ==
  << [Msg("ClientHello", TRUE, "none") EXCEPT
        !.random = sess.handshake_data.client_random,
        !.suites = Advertised(sess.config)] >>
  \o IF sess.state \in {"ExpectCCS", "ExpectFinished", "Traffic"}
       THEN <<ClientMsg("ClientKeyExchange"), ClientMsg("ChangeCipherSpec"),
              [ClientMsg("Finished") EXCEPT
                 !.verify = get_verify_data(sess.handshake_data).body]>>
       ELSE <<>>

\* C12: a write_tls call removes at most one message from the outbound queue,
\* the oldest, so the k-th message handed to the sink is the k-th message that
\* was queued; on an empty queue it writes nothing and returns Ok.
C12_WritesInEnqueueOrder ==
  /\ [](\E k \in 0..Len(Enqueued(cs)) :
          cs.tls_queue = SubSeq(Enqueued(cs), k + 1, Len(Enqueued(cs))))
  /\ [][ last'.op = "write_tls"
           => IF cs.tls_queue = <<>>
                THEN last'.res = "Ok" /\ last'.ret = <<>> /\ cs' = cs
                ELSE /\ cs'.tls_queue = Tail(cs.tls_queue)
                     /\ cs'.frames = cs.frames
                     /\ last'.res = "Ok"
                          => last'.ret =
                               encode(Enqueued(cs)[Len(Enqueued(cs)) - Len(cs.tls_queue) + 1])
           ]_vars

\* C12 witness: the second message of the second flight has just been written
\* and only the third is left
C12_Witness ==
  /\ last.op = "write_tls"
  /\ last.res = "Ok"
  /\ last.ret = encode(ClientMsg("ChangeCipherSpec"))
  /\ Len(cs.tls_queue) = 1
  /\ cs.tls_queue[1].typ = "Finished"
  /\ cs.tls_queue[1].verify # <<>>

\* position of a state in the order the ConnState enum lists them
Pos(s) == CHOOSE i \in 1..Len(ConnState) : ConnState[i] = s

\* C13: the position of the current state in the order ExpectServerHello,
\* ExpectCertificate, ExpectServerKX, ExpectServerHelloDone, ExpectCCS,
\* ExpectFinished, Traffic never decreases, so a state once left is not
\* entered again.
C13_StateOnlyMovesForward ==
  [][ Pos(cs'.state) >= Pos(cs.state) ]_vars

\* C13 witness: the session has moved through four states and just entered
\* ExpectCCS
C13_Witness ==
  /\ cs.state = "ExpectCCS"
  /\ last.op = "process_msg"
  /\ last.res = "Ok"
  /\ last.msg[1].typ = "ServerHelloDone"

\* the session sess put into state s
InState(sess, s) == [sess EXCEPT !.state = s]

\* C14: whenever the current state maps to the sentinel handler, as Traffic
\* does, process_msg fails with an unexpected-state error for every message
\* and leaves the state alone; a session in Traffic stays in Traffic.
C14_SentinelStatesAreTerminal ==
  /\ [](/\ get_handler(InState(cs, "Traffic")) = "InvalidState"
        /\ \A i \in 1..Len(ConnState), m \in ServerMessages :
             LET s0 == InState(cs, ConnState[i])
             IN get_handler(s0) = "InvalidState"
                  => /\ process_msg(s0, m).res = "UnexpectedState"
                     /\ process_msg(s0, m).sess = s0)
  /\ [][ /\ (last'.op = "process_msg" /\ get_handler(cs) = "InvalidState")
              => (last'.res = "UnexpectedState" /\ cs'.state = cs.state)
         /\ cs.state = "Traffic" => cs'.state = "Traffic" ]_vars

\* C14 witness: a ChangeCipherSpec was refused in ExpectCCS, a state that maps
\* to the sentinel handler
C14_Witness ==
  /\ last.op = "process_msg"
  /\ last.msg[1].typ = "ChangeCipherSpec"
  /\ last.res = "UnexpectedState"
  /\ last.stage = "handle"
  /\ cs.state = "ExpectCCS"
  /\ get_handler(cs) = "InvalidState"

\* s is an initial segment of t
IsPrefix(s, t) == Len(s) <= Len(t) /\ SubSeq(t, 1, Len(s)) = s

\* C15: the transcript hash accumulator is absent in a fresh session, becomes
\* present when the cipher suite is negotiated and from then on is only
\* extended, never dropped or started again; no call runs hash_message or
\* get_verify_data while it is absent, and either of them panics if invoked
\* then.
C15_AccumulatorPresentOnceNegotiated ==
  /\ [](LET hd == cs.handshake_data
        IN /\ last.op = "new" => hd.handshake_hash = None
           /\ hd.handshake_hash = None <=> hd.ciphersuite = None
           /\ last.res # "Panic"
           /\ hd.handshake_hash = None
                => /\ get_verify_data(hd).panic
                   /\ \A m \in ServerMessages : hash_message(hd, m).panic
           /\ hd.handshake_hash # None
                => /\ ~get_verify_data(hd).panic
                   /\ \A m \in ServerMessages : ~hash_message(hd, m).panic)
  /\ [][ LET h0 == cs.handshake_data.handshake_hash
             h1 == cs'.handshake_data.handshake_hash
         IN h0 # None
              => /\ h1 # None
                 /\ h1[1].alg = h0[1].alg
                 /\ IsPrefix(h0[1].data, h1[1].data) ]_vars

\* C15 witness: the suite is negotiated, the accumulator is present and the
\* Certificate has just been hashed into it
C15_Witness ==
  /\ last.op = "process_msg"
  /\ last.res = "Ok"
  /\ last.msg[1].typ = "Certificate"
  /\ cs.state = "ExpectServerKX"
  /\ cs.handshake_data.ciphersuite # None
  /\ cs.handshake_data.handshake_hash # None
  /\ Len(cs.handshake_data.handshake_hash[1].data) > Len(cs.handshake_data.client_hello)

\* the operations that only answer a question
Queries == {"wants_read", "wants_write", "get_cipher_suites", "find_cipher_suite"}

\* C17: the state is changed only by a process_msg call that succeeds (on its
\* own or as an iteration of process_new_packets); read_tls, write_tls and the
\* queries leave the state as it is, and the queries leave both queues as they
\* are.
C17_OnlyProcessMsgChangesState ==
  [][ /\ cs'.state # cs.state
        => \/ /\ last'.op = "process_msg"
              /\ last'.res = "Ok"
              /\ last'.stage = "commit"
              /\ cs'.state = process_msg(cs, last'.msg[1]).sess.state
           \/ /\ last'.op = "process_new_packets"
              /\ \E k \in 1..last'.ret[1] :
                   /\ StepAt(cs, k).res = "Ok"
                   /\ StepAt(cs, k).sess.state = cs'.state
      /\ last'.op \in {"read_tls", "write_tls"} \cup Queries
           => cs'.state = cs.state
      /\ last'.op \in Queries
           => /\ cs'.frames = cs.frames
              /\ cs'.tls_queue = cs.tls_queue
    ]_vars

\* C17 witness: find_cipher_suite answered in the middle of a handshake, with
\* a message waiting in each queue
C17_Witness ==
  /\ last.op = "find_cipher_suite"
  /\ last.ret # None
  /\ cs.state = "ExpectServerKX"
  /\ cs.frames # <<>>
  /\ cs.tls_queue # <<>>

\* C18: when process_new_packets fails on the k-th of n queued messages, the
\* first k are gone from the inbound queue, the other n - k are still queued in
\* their order, and the next call starts with message k + 1.
C18_FailedPumpKeepsTheRest ==
  [][ (last'.op = "process_new_packets" /\ last'.res # "Ok")
        => LET n == Len(cs.frames)
               k == last'.ret[1]
           IN /\ k \in 1..n
              /\ cs'.frames = SubSeq(cs.frames, k + 1, n)
              /\ k < n
                   => LET first == process_msg([cs' EXCEPT !.frames = Tail(@)],
                                               cs.frames[k + 1])
                          again == process_new_packets(cs')
                      IN /\ again.n >= 1
                         /\ first.res # "Ok"
                              => /\ again.res = first.res
                                 /\ again.n = 1
                                 /\ again.sess = first.sess
                         /\ first.res = "Ok"
                              => /\ again.res = process_new_packets(first.sess).res
                                 /\ again.n = process_new_packets(first.sess).n + 1
                                 /\ again.sess = process_new_packets(first.sess).sess
    ]_vars

\* C18 witness: a pump of three messages failed on the first one, a
\* Certificate before any ServerHello, and left the other two queued
C18_Witness ==
  /\ last.op = "process_new_packets"
  /\ last.res = "ProtocolViolation"
  /\ last.ret = <<1>>
  /\ cs.state = "ExpectServerHello"
  /\ Len(cs.frames) = 2
  /\ cs.frames[1].typ = "ServerHello"

\* C19: when the expectation matches and the handler's handle fails,
\* process_msg returns that very error and the state is the one before the
\* call; the state is assigned only after handle has succeeded.
C19_HandlerFailureLeavesState ==
  [][ last'.op = "process_msg"
        => LET m == last'.msg[1]
               h == get_handler(cs)
               r == HandlerHandle(h, cs, m)
           IN /\ (check_message(HandlerExpect(h), m) = "Ok" /\ r.res # "Ok")
                   => /\ last'.res = r.res
                      /\ last'.stage = "handle"
                      /\ cs'.state = cs.state
              /\ (check_message(HandlerExpect(h), m) = "Ok" /\ r.res = "Ok")
                   => /\ last'.res = "Ok"
                      /\ cs'.state = r.next
              /\ cs'.state # cs.state
                   => /\ last'.stage = "commit"
                      /\ r.res = "Ok"
    ]_vars

\* C19 witness: a ServerHello selecting a suite the client cannot use has been
\* answered with the negotiation failure, still in ExpectServerHello
C19_Witness ==
  /\ last.op = "process_msg"
  /\ last.res = "NegotiationFailure"
  /\ last.stage = "handle"
  /\ last.msg[1].typ = "ServerHello"
  /\ last.msg[1].suite = TLS_EMPTY_RENEGOTIATION_INFO_SCSV
  /\ cs.state = "ExpectServerHello"

\* C20: process_new_packets comes to an end on every queue: each iteration
\* takes exactly one message out, so it calls process_msg at most n times for
\* n queued messages, and when it returns Ok the inbound queue is empty.
C20_PumpTerminatesAndDrains ==
  /\ [](LET r == process_new_packets(cs)
        IN /\ r.n \in 0..Len(cs.frames)
           /\ r.res = "Ok" => r.sess.frames = <<>>)
  /\ [][ last'.op = "process_new_packets"
           => LET n == last'.ret[1]
              IN /\ n \in 0..Len(cs.frames)
                 /\ \A k \in 1..n :
                      Len(StepAt(cs, k).sess.frames) = Len(cs.frames) - k
                 /\ Len(cs'.frames) = Len(cs.frames) - n
                 /\ last'.res = "Ok" => (n = Len(cs.frames) /\ cs'.frames = <<>>)
       ]_vars

\* C20 witness: a pump returned Ok after three calls of process_msg and the
\* inbound queue is empty
C20_Witness ==
  /\ last.op = "process_new_packets"
  /\ last.res = "Ok"
  /\ last.ret = <<3>>
  /\ cs.frames = <<>>
  /\ cs.state = "ExpectServerHelloDone"
=============================================================================
